---- MODULE Spec2Model ----
(***************************************************************************)
(* Model of the handler wrappers (src/bot/common/wrappers.py), of the      *)
(* error dispatcher (src/bot/errors.py), of the conversation builder       *)
(* (src/bot/common/conversation.py) and of the cache job                   *)
(* (src/bot/application.py).  An event is pushed through a chain of        *)
(* wrappers around a base handler h; every await of an outbound call       *)
(* (send_message / delete_message / callback_query.answer) is a suspension *)
(* point with two outcomes, success or failure.                            *)
(*   Spec         one event at a time through any chain of wrappers        *)
(*   SpecBuilder  the calls on a ConversationBuilder                       *)
(*   SpecConv     events routed by a built conversation, and the cache job *)
(*   SpecRace     two events handled at the same time                      *)
(***************************************************************************)
EXTENDS Integers, Sequences, FiniteSets, TLC

\* ---- bounds -------------------------------------------------------------
NumUsers == 2
NumChats == 2
NumMessages == 1
\* chats that take part in conversations
NumConvChats == 1

Users == 1..NumUsers
Chats == 1..NumChats
Messages == 1..NumMessages
ConvChats == 1..NumConvChats
Payloads == {"p1", "p2"}

\* ---- values -------------------------------------------------------------
\* Python None, as a handler result and as an empty slot
None == "None"
\* ConversationHandler.END
END == "END"
\* default text of exit_conversation_on_exception
user_message == "I'm sorry, something went wrong, try again or contact an Administrator."
\* text sent by handle_error for UserNotRegistered
not_registered_text == "You are not registered. Please register first with /start"
\* the exception class of errors.py and any other exception class
UserNotRegistered == "UserNotRegistered"
OtherError == "Exception"
\* the error an outbound call raises when it fails
TelegramError == "TelegramError"

HandlerResults == {None, END, "S1"}
HandlerErrors == {UserNotRegistered, OtherError}
SlotValues == {None, "data"}

Wrappers == {"admin", "inject", "delete", "exit"}
Frames == Wrappers \cup {"h"}

NoOutcome == [kind |-> "none", val |-> "-"]
Return(v) == [kind |-> "return", val |-> v]
Raise(e) == [kind |-> "raise", val |-> e]
HandlerOutcomes == {Return(v) : v \in HandlerResults} \cup {Raise(e) : e \in HandlerErrors}

\* one entry of a task's effect trace
Ev(op, by, chat, msg, arg) == [op |-> op, by |-> by, chat |-> chat, msg |-> msg, arg |-> arg]

\* ---- wrapper chains -----------------------------------------------------
\* A chain lists the wrappers that decorate h, outermost first.  A wrapper
\* occurs at most once; inject_callback_query calls f with three arguments,
\* so it can only wrap the raw callback-query handler (innermost).
RECURSIVE SeqsNoRepeat(_)
SeqsNoRepeat(S) ==
    {<<>>} \cup UNION {{<<w>> \o s : s \in SeqsNoRepeat(S \ {w})} : w \in S}

Chains ==
    LET outer == SeqsNoRepeat(Wrappers \ {"inject"})
    IN outer \cup {s \o <<"inject">> : s \in outer}

Has(chain, w) == \E i \in 1..Len(chain) : chain[i] = w

VARIABLES
    tasks,              \* task id -> the invocation in progress for one event
    conversation_data,  \* chat id -> context.chat_data.conversation_data
    admin_ids,          \* the id list given to admin_command
    builder,            \* the fields of a ConversationBuilder
    heap,               \* object id -> the dict or list object behind a builder field
    conv,               \* the ConversationHandler returned by the last build()
    calls,              \* history: the calls made on the builder, in order
    view,               \* history: what the handler of the last build() held when built
    instances,          \* scope key -> current state of the conversation machine
    users,              \* context.bot_data.users, the cached user ids
    mode,               \* how the host schedules events
    cleared             \* history: the last change of users was a clear_cache run

wrapper_vars == <<tasks, conversation_data, admin_ids>>
builder_vars == <<builder, heap, conv, calls, view>>
host_vars == <<instances, users, mode, cleared>>
vars == <<tasks, conversation_data, admin_ids, builder, heap, conv, calls, view,
          instances, users, mode, cleared>>

Idle ==
    [phase |-> "idle",
     update |-> [user |-> 1, chat |-> 1, message |-> 1, data |-> "p1"],
     chain |-> <<>>,
     answer_query_after |-> TRUE,
     depth |-> 0,
     arg |-> "-",
     outcome |-> NoOutcome,
     result |-> NoOutcome,
     seen |-> [w \in Frames |-> NoOutcome],
     gave |-> [w \in Frames |-> NoOutcome],
     trace |-> <<>>,
     error |-> None,
     dispatched |-> NoOutcome,
     slot0 |-> [c \in Chats |-> None],
     slot_after_f |-> None,
     kind |-> "none",
     key |-> <<0, 0, 0>>,
     state0 |-> "-",
     route |-> "none",
     overlap |-> {}]

\* ---- ConversationBuilder ------------------------------------------------
MaxCalls == 3

HandlerNames == {"h1", "h2"}
StateIds == {"S1", "S2"}
NoHandler == "-"

\* the dataclass defaults of lines 10-16
default_per_user_off == FALSE
default_per_user == TRUE
default_per_chat == TRUE
default_per_message == FALSE
default_allow_reentry == FALSE
default_persistent == FALSE

\* a builder constructed with the given keyword arguments; the three
\* containers are fresh objects made by the default factories
ConversationBuilder(per_user, per_chat, per_message, allow_reentry, name, persistent) ==
    [per_user |-> per_user, per_chat |-> per_chat, per_message |-> per_message,
     allow_reentry |-> allow_reentry, name |-> name, persistent |-> persistent,
     map_to_parent |-> None,
     states |-> "o_states", fallbacks |-> "o_fallbacks", entry_points |-> "o_entry_points"]

NewHeap ==
    [o \in {"o_states", "o_fallbacks", "o_entry_points"} |->
        IF o = "o_states"
        THEN [kind |-> "dict", items |-> [s \in StateIds |-> NoHandler], elems |-> <<>>]
        ELSE [kind |-> "list", items |-> [s \in StateIds |-> NoHandler], elems |-> <<>>]]

DefaultBuilder ==
    ConversationBuilder(default_per_user, default_per_chat, default_per_message,
                        default_allow_reentry, None, default_persistent)

\* ConversationHandler(**kw) keeps the arguments it is given; a dict or list
\* argument is the object itself, not a copy
ConversationHandler(kw) ==
    [built |-> TRUE, entry_points |-> kw.entry_points, states |-> kw.states,
     fallbacks |-> kw.fallbacks, per_user |-> kw.per_user, per_chat |-> kw.per_chat,
     per_message |-> kw.per_message, allow_reentry |-> kw.allow_reentry,
     name |-> kw.name, persistent |-> kw.persistent, map_to_parent |-> kw.map_to_parent]

build_forces_reentry(self) ==
    ConversationHandler(
        [entry_points |-> self.entry_points, states |-> self.states,
         fallbacks |-> self.fallbacks, per_user |-> self.per_user,
         per_chat |-> self.per_chat, per_message |-> self.per_message,
         allow_reentry |-> TRUE, name |-> self.name,
         persistent |-> self.persistent, map_to_parent |-> self.map_to_parent])
build(self) ==
    ConversationHandler(
        [entry_points |-> self.entry_points, states |-> self.states,
         fallbacks |-> self.fallbacks, per_user |-> self.per_user,
         per_chat |-> self.per_chat, per_message |-> self.per_message,
         allow_reentry |-> self.allow_reentry, name |-> self.name,
         persistent |-> self.persistent, map_to_parent |-> self.map_to_parent])

NotBuilt == [build(DefaultBuilder) EXCEPT !.built = FALSE]

\* self.states[state] = handler
dict_set_first_wins(obj, k, v) ==
    IF obj.items[k] = NoHandler THEN [obj EXCEPT !.items[k] = v] ELSE obj
dict_set(obj, k, v) == [obj EXCEPT !.items[k] = v]

\* self.entry_points.append(handler), self.fallbacks.append(handler)
list_append(obj, v) == [obj EXCEPT !.elems = Append(@, v)]

\* what a built handler holds now: its references followed into the heap
Deref(c, hp) ==
    [entry_points |-> hp[c.entry_points].elems,
     states |-> hp[c.states].items,
     fallbacks |-> hp[c.fallbacks].elems]

NoView == [entry_points |-> <<>>, states |-> [s \in StateIds |-> NoHandler],
           fallbacks |-> <<>>, at |-> 0]

\* ---- scope keys and host state -----------------------------------------
NoState == "-"
Keys == (Chats \cup {0}) \X (Users \cup {0}) \X (Messages \cup {0})

\* admin_ids: nobody, one user, everybody
InitWrappers ==
    /\ tasks = [t \in {1} |-> Idle]
    /\ conversation_data \in [Chats -> SlotValues]
    /\ admin_ids \in {{}, {1}, Users}

InitBuilder ==
    /\ builder = DefaultBuilder
    /\ heap = NewHeap
    /\ conv = NotBuilt
    /\ calls = <<>>
    /\ view = NoView

InitHost ==
    /\ instances = [k \in Keys |-> NoState]
    /\ users = {}
    /\ mode = "concurrent"
    /\ cleared = FALSE

Init == InitWrappers /\ InitBuilder /\ InitHost

\* the frame that runs at the task's current depth
Frame(T) == IF T.depth >= 1 /\ T.depth <= Len(T.chain) THEN T.chain[T.depth]
            ELSE IF T.depth = Len(T.chain) + 1 THEN "h" ELSE "host"

Log(T, evs) == [T EXCEPT !.trace = @ \o evs]

\* frame w of T hands `out` to its caller
Leave(T, w, out) ==
    [T EXCEPT !.phase = "ret", !.depth = @ - 1, !.outcome = out,
              !.gave = [@ EXCEPT ![w] = out],
              !.trace = @ \o <<Ev("leave", w, 0, 0, out.kind)>>]

\* frame w of T calls the handler it wraps
CallF(T, w) ==
    [T EXCEPT !.phase = "call", !.depth = @ + 1,
              !.trace = @ \o <<Ev("enter", w, 0, 0, "-")>>]

\* frame w of T issues an outbound call and suspends
Await(T, w, ev) ==
    [T EXCEPT !.phase = "await", !.trace = @ \o <<ev>>]

\* ---- the host delivers an event to a wrapped handler --------------------
Receive(t) ==
    /\ tasks[t].phase = "idle"
    /\ \E u \in Users, c \in Chats, m \in Messages, d \in Payloads,
          ch \in Chains, a \in BOOLEAN :
         \* the payload and the answer flag are read by inject_callback_query only,
         \* the message id by delete_message_after only
         /\ ~Has(ch, "inject") => (d = "p1" /\ a = TRUE)
         /\ ~Has(ch, "delete") => m = 1
         /\ tasks' = [tasks EXCEPT ![t] =
                     [Idle EXCEPT !.phase = "call", !.depth = 1,
                                  !.update = [user |-> u, chat |-> c, message |-> m, data |-> d],
                                  !.chain = ch, !.answer_query_after = a,
                                  !.slot0 = conversation_data,
                                  !.slot_after_f = conversation_data[c]]]
    /\ UNCHANGED <<conversation_data, admin_ids>>

\* history: the other tasks that are suspended in the apology send of
\* exit_conversation_on_exception
Suspended(t) ==
    {a \in DOMAIN tasks \ {t} : tasks[a].phase = "await" /\ Frame(tasks[a]) = "exit"}

\* ---- the base handler h (business logic, any result, any slot write) ----
Handler(t) ==
    LET T == tasks[t] IN
    /\ T.phase = "call" /\ Frame(T) = "h"
    /\ \E out \in HandlerOutcomes, w \in SlotValues :
         /\ conversation_data' = [conversation_data EXCEPT ![T.update.chat] = w]
         /\ tasks' = [tasks EXCEPT ![t] =
                Leave(Log([T EXCEPT !.slot_after_f = w, !.overlap = Suspended(t)],
                          <<Ev("enter", "h", 0, 0, T.arg)>>), "h", out)]
    /\ UNCHANGED admin_ids

\* ---- admin_command ------------------------------------------------------
admin_authorized_all(update, ids) == TRUE
admin_authorized(update, ids) == update.user \in ids

AdminCall(t) ==
    LET T == tasks[t] IN
    /\ T.phase = "call" /\ Frame(T) = "admin"
    /\ tasks' = [tasks EXCEPT ![t] =
          IF admin_authorized(T.update, admin_ids)
          THEN CallF(T, "admin")
          ELSE Leave(Log(T, <<Ev("enter", "admin", 0, 0, "-")>>), "admin", Return(None))]
    /\ UNCHANGED <<conversation_data, admin_ids>>

AdminReturn(t) ==
    LET T == tasks[t] IN
    /\ T.phase = "ret" /\ Frame(T) = "admin"
    /\ tasks' = [tasks EXCEPT ![t] =
          Leave([T EXCEPT !.seen = [@ EXCEPT !["admin"] = T.outcome]], "admin", T.outcome)]
    /\ UNCHANGED <<conversation_data, admin_ids>>

\* ---- inject_callback_query ----------------------------------------------
\* cast(CallbackDataType, update.callback_query.data): typing.cast returns
\* its second argument as it is
converted_data(update) == update.data

\* the condition of line 48, reached only when f has returned normally
inject_answers_never(answer_query_after) == FALSE
inject_answers_always(answer_query_after) == TRUE
inject_answers(answer_query_after) == answer_query_after

InjectCall(t) ==
    LET T == tasks[t] IN
    /\ T.phase = "call" /\ Frame(T) = "inject"
    /\ tasks' = [tasks EXCEPT ![t] =
          CallF([T EXCEPT !.arg = converted_data(T.update)], "inject")]
    /\ UNCHANGED <<conversation_data, admin_ids>>

InjectReturn(t) ==
    LET T == tasks[t]
        S == [T EXCEPT !.seen = [@ EXCEPT !["inject"] = T.outcome], !.result = T.outcome]
    IN
    /\ T.phase = "ret" /\ Frame(T) = "inject"
    /\ tasks' = [tasks EXCEPT ![t] =
          IF T.outcome.kind = "raise" THEN Leave(S, "inject", T.outcome)
          ELSE IF inject_answers(T.answer_query_after)
               THEN Await(S, "inject", Ev("answer", "inject", 0, 0, "-"))
               ELSE Leave(S, "inject", S.result)]
    /\ UNCHANGED <<conversation_data, admin_ids>>

InjectAnswered(t) ==
    LET T == tasks[t] IN
    /\ T.phase = "await" /\ Frame(T) = "inject"
    /\ \E ok \in BOOLEAN :
         tasks' = [tasks EXCEPT ![t] =
            LET S == Log(T, <<Ev("resume", "inject", 0, 0, IF ok THEN "ok" ELSE "fail")>>)
            IN IF ok THEN Leave(S, "inject", S.result)
                     ELSE Leave(S, "inject", Raise(TelegramError))]
    /\ UNCHANGED <<conversation_data, admin_ids>>

\* ---- delete_message_after -----------------------------------------------
\* try: await delete_message(...)  finally: return result
delete_finally_propagates(result, ok) == IF ok THEN result ELSE Raise(TelegramError)
delete_finally(result, ok) == result

DeleteCall(t) ==
    LET T == tasks[t] IN
    /\ T.phase = "call" /\ Frame(T) = "delete"
    /\ tasks' = [tasks EXCEPT ![t] = CallF(T, "delete")]
    /\ UNCHANGED <<conversation_data, admin_ids>>

\* line 60 is outside the try: an error of f leaves the wrapper at once
DeleteReturn(t) ==
    LET T == tasks[t]
        S == [T EXCEPT !.seen = [@ EXCEPT !["delete"] = T.outcome], !.result = T.outcome]
    IN
    /\ T.phase = "ret" /\ Frame(T) = "delete"
    /\ tasks' = [tasks EXCEPT ![t] =
          IF T.outcome.kind = "raise" THEN Leave(S, "delete", T.outcome)
          ELSE Await(S, "delete",
                     Ev("delete", "delete", T.update.chat, T.update.message, "-"))]
    /\ UNCHANGED <<conversation_data, admin_ids>>

DeleteDone(t) ==
    LET T == tasks[t] IN
    /\ T.phase = "await" /\ Frame(T) = "delete"
    /\ \E ok \in BOOLEAN :
         tasks' = [tasks EXCEPT ![t] =
            LET S == Log(T, <<Ev("resume", "delete", 0, 0, IF ok THEN "ok" ELSE "fail")>>)
            IN Leave(S, "delete", delete_finally(S.result, ok))]
    /\ UNCHANGED <<conversation_data, admin_ids>>

\* ---- exit_conversation_on_exception -------------------------------------
\* the bare `except:` of line 81
exit_catches(e) == TRUE

\* what the wrapper does once the apology send has resumed: lines 86-87 run
\* only when the await of line 82 did not raise
exit_after_send(ok, slot) ==
    IF ok THEN [outcome |-> Return(END), slot |-> None]
          ELSE [outcome |-> Raise(TelegramError), slot |-> slot]

\* context.chat_data is the store of the event's chat: an assignment to its
\* conversation_data changes the slot of that chat
chat_data_set_everywhere(cd, c, v) == [x \in DOMAIN cd |-> v]
chat_data_set(cd, c, v) == [cd EXCEPT ![c] = v]

\* what the wrapper does to the slot when f returned normally (line 80)
exit_on_success_clears(slot) == None
exit_on_success(slot) == slot

ExitCall(t) ==
    LET T == tasks[t] IN
    /\ T.phase = "call" /\ Frame(T) = "exit"
    /\ tasks' = [tasks EXCEPT ![t] = CallF(T, "exit")]
    /\ UNCHANGED <<conversation_data, admin_ids>>

ExitReturn(t) ==
    LET T == tasks[t]
        c == T.update.chat
        S == [T EXCEPT !.seen = [@ EXCEPT !["exit"] = T.outcome]]
    IN
    /\ T.phase = "ret" /\ Frame(T) = "exit"
    /\ IF T.outcome.kind = "raise" /\ exit_catches(T.outcome.val)
       THEN /\ tasks' = [tasks EXCEPT ![t] =
                  Await(S, "exit", Ev("send", "exit", c, 0, user_message))]
            /\ UNCHANGED conversation_data
       ELSE /\ tasks' = [tasks EXCEPT ![t] = Leave(S, "exit", T.outcome)]
            /\ conversation_data' =
                  [conversation_data EXCEPT ![c] = exit_on_success(@)]
    /\ UNCHANGED admin_ids

ExitSent(t) ==
    LET T == tasks[t]
        c == T.update.chat
    IN
    /\ T.phase = "await" /\ Frame(T) = "exit"
    /\ \E ok \in BOOLEAN :
         LET S == Log(T, <<Ev("resume", "exit", 0, 0, IF ok THEN "ok" ELSE "fail")>>)
             r == exit_after_send(ok, conversation_data[c])
         IN /\ tasks' = [tasks EXCEPT ![t] = Leave(S, "exit", r.outcome)]
            /\ conversation_data' = chat_data_set(conversation_data, c, r.slot)
    /\ UNCHANGED admin_ids

\* ---- the host: end of the pipeline, error dispatch ----------------------
\* The outermost frame has handed its outcome to the host.  An error that
\* escapes the chain becomes context.error of the error handler.
Complete(t) ==
    LET T == tasks[t] IN
    /\ T.phase = "ret" /\ T.depth = 0
    /\ tasks' = [tasks EXCEPT ![t] =
          IF T.outcome.kind = "raise"
          THEN [T EXCEPT !.phase = "error", !.error = T.outcome.val]
          ELSE [T EXCEPT !.phase = "done"]]
    /\ UNCHANGED <<conversation_data, admin_ids>>

\* handle_error called with whatever context.error holds, None included
ReceiveError(t) ==
    /\ tasks[t].phase = "idle"
    /\ \E u \in Users, c \in Chats, m \in Messages, d \in Payloads,
          e \in {None} \cup HandlerErrors \cup {TelegramError} :
         tasks' = [tasks EXCEPT ![t] =
                     [Idle EXCEPT !.phase = "error", !.error = e,
                                  !.update = [user |-> u, chat |-> c, message |-> m, data |-> d],
                                  !.slot0 = conversation_data,
                                  !.slot_after_f = conversation_data[c]]]
    /\ UNCHANGED <<conversation_data, admin_ids>>

\* ---- handle_error -------------------------------------------------------
\* `if not e: return`, then the match statement.  Exception instances are
\* truthy, so `not e` holds for None only.
handle_error_branch_logs_all(e) ==
    IF e = None THEN "noop" ELSE "log"
handle_error_branch(e) ==
    IF e = None THEN "noop"
    ELSE IF e = UserNotRegistered THEN "send"
    ELSE "log"

HandleError(t) ==
    LET T == tasks[t]
        b == handle_error_branch(T.error)
    IN
    /\ T.phase = "error"
    /\ tasks' = [tasks EXCEPT ![t] =
          IF b = "noop" THEN [T EXCEPT !.phase = "done", !.dispatched = Return(None)]
          ELSE IF b = "send"
          THEN [T EXCEPT !.phase = "error_await",
                         !.trace = @ \o <<Ev("send", "handle_error", T.update.chat, 0,
                                             not_registered_text)>>]
          ELSE [T EXCEPT !.phase = "done", !.dispatched = Return(None),
                         !.trace = @ \o <<Ev("log", "handle_error", 0, 0, T.error)>>]]
    /\ UNCHANGED <<conversation_data, admin_ids>>

HandleErrorSent(t) ==
    LET T == tasks[t] IN
    /\ T.phase = "error_await"
    /\ \E ok \in BOOLEAN :
         tasks' = [tasks EXCEPT ![t] =
            [T EXCEPT !.phase = "done",
                      !.dispatched = IF ok THEN Return(None) ELSE Raise(TelegramError),
                      !.trace = @ \o <<Ev("resume", "handle_error", 0, 0,
                                          IF ok THEN "ok" ELSE "fail")>>]]
    /\ UNCHANGED <<conversation_data, admin_ids>>

\* the event has been dealt with; the task takes the next one
Reset(t) ==
    /\ tasks[t].phase = "done"
    /\ tasks' = [tasks EXCEPT ![t] = Idle]
    /\ UNCHANGED <<conversation_data, admin_ids>>

WrapperStep ==
    \E t \in DOMAIN tasks :
        \/ Receive(t) \/ ReceiveError(t)
        \/ Handler(t)
        \/ AdminCall(t) \/ AdminReturn(t)
        \/ InjectCall(t) \/ InjectReturn(t) \/ InjectAnswered(t)
        \/ DeleteCall(t) \/ DeleteReturn(t) \/ DeleteDone(t)
        \/ ExitCall(t) \/ ExitReturn(t) \/ ExitSent(t)
        \/ Complete(t) \/ HandleError(t) \/ HandleErrorSent(t)
        \/ Reset(t)

Next == WrapperStep /\ UNCHANGED <<builder_vars, host_vars>>

Spec == Init /\ [][Next]_vars

\* ---- the host's conversation machine ------------------------------------
\* the key of the machine instance an event belongs to
ScopeKey(update, c) ==
    <<IF c.per_chat THEN update.chat ELSE 0,
      IF c.per_user THEN update.user ELSE 0,
      IF c.per_message THEN update.message ELSE 0>>

\* which handler an event goes to: an entry point when no instance is active
\* or re-entry is allowed, the handler of the current state for a message to
\* an active instance, none otherwise
Route(kind, state, allow_reentry) ==
    IF kind = "entry" /\ (state = NoState \/ allow_reentry) THEN "entry"
    ELSE IF kind = "message" /\ state # NoState THEN "state"
    ELSE "ignored"

\* the state of an instance after its handler's outcome: END removes the
\* instance, None and an error leave the state, any other value is the new state
NextState(state, out) ==
    IF out.kind = "raise" THEN state
    ELSE IF out.val = END THEN NoState
    ELSE IF out.val = None THEN state
    ELSE out.val

\* entry points are admin commands, state handlers are wrapped by
\* exit_conversation_on_exception
EntryChain == <<"admin">>
StateChain == <<"exit">>

Deliver(t) ==
    /\ tasks[t].phase = "idle"
    /\ \E u \in Users, c \in ConvChats, kind \in {"entry", "message"} :
         LET upd == [user |-> u, chat |-> c, message |-> 1, data |-> "p1"]
             k == ScopeKey(upd, conv)
             r == Route(kind, instances[k], conv.allow_reentry)
         IN tasks' = [tasks EXCEPT ![t] =
               [Idle EXCEPT !.phase = IF r = "ignored" THEN "done" ELSE "call",
                            !.depth = 1, !.update = upd,
                            !.chain = IF r = "entry" THEN EntryChain ELSE StateChain,
                            !.slot0 = conversation_data,
                            !.slot_after_f = conversation_data[c],
                            !.kind = kind, !.key = k,
                            !.state0 = instances[k], !.route = r]]
    /\ UNCHANGED <<conversation_data, admin_ids, instances>>

\* the handler chain has finished: the host updates the instance, and an
\* error that escaped goes to the error handler
Conclude(t) ==
    LET T == tasks[t] IN
    /\ T.phase = "ret" /\ T.depth = 0 /\ T.route \in {"entry", "state"}
    /\ instances' = [instances EXCEPT ![T.key] = NextState(@, T.outcome)]
    /\ tasks' = [tasks EXCEPT ![t] =
          IF T.outcome.kind = "raise"
          THEN [T EXCEPT !.phase = "error", !.error = T.outcome.val]
          ELSE [T EXCEPT !.phase = "done"]]
    /\ UNCHANGED <<conversation_data, admin_ids>>

\* ---- the user cache ----------------------------------------------------
\* a handler stores the record of the acting user in bot_data.users
CacheUser(u) ==
    /\ u \notin users
    /\ users' = users \cup {u}
    /\ cleared' = FALSE
    /\ UNCHANGED <<wrapper_vars, builder_vars, instances, mode>>

\* context.bot_data.users.clear()
users_clear_one(us) == IF us = {} THEN {} ELSE us \ {CHOOSE u \in us : TRUE}
users_clear(us) == {}

clear_cache ==
    /\ users' = users_clear(users)
    /\ cleared' = (users # {})
    /\ UNCHANGED <<wrapper_vars, builder_vars, instances, mode>>

ConvStep ==
    \E t \in DOMAIN tasks :
        \/ Handler(t)
        \/ AdminCall(t) \/ AdminReturn(t)
        \/ ExitCall(t) \/ ExitReturn(t) \/ ExitSent(t)
        \/ HandleError(t) \/ HandleErrorSent(t)
        \/ Reset(t)

NextConv ==
    \/ ConvStep /\ UNCHANGED <<builder_vars, host_vars>>
    \/ (\E t \in DOMAIN tasks : Deliver(t) \/ Conclude(t))
         /\ UNCHANGED <<builder_vars, users, mode, cleared>>
    \/ \E u \in Users : CacheUser(u)
    \/ clear_cache

\* a conversation built with the defaults, re-entry allowed or not, is
\* registered; no event has arrived yet
InitConv ==
    /\ tasks = [t \in {1} |-> Idle]
    /\ conversation_data = [c \in Chats |-> None]
    /\ admin_ids \in {Users, {1}}
    /\ \E ar \in BOOLEAN :
         /\ builder = ConversationBuilder(default_per_user, default_per_chat,
                                          default_per_message, ar, None, default_persistent)
         /\ conv = build(builder)
    /\ heap = NewHeap
    /\ calls = <<>>
    /\ view = NoView
    /\ instances = [k \in Keys |-> NoState]
    /\ users = {}
    /\ mode = "serial"
    /\ cleared = FALSE

SpecConv == InitConv /\ [][NextConv]_vars

\* ---- two events at a time -----------------------------------------------
\* Two tasks, each handling one event of a conversation.
Modes == {"concurrent", "per_key", "per_chat"}
InProgress(T) == T.phase \notin {"idle", "done"}

\* may the host start handling upd now, given the events in progress
MayStart(t, upd) ==
    \A a \in DOMAIN tasks \ {t} :
      InProgress(tasks[a]) =>
        /\ mode = "per_key" => ScopeKey(tasks[a].update, conv) # ScopeKey(upd, conv)
        /\ mode = "per_chat" => tasks[a].update.chat # upd.chat

\* the host hands an event to a state handler of the conversation
Dispatch(t) ==
    /\ tasks[t].phase = "idle"
    /\ \E u \in Users, c \in Chats :
         LET upd == [user |-> u, chat |-> c, message |-> 1, data |-> "p1"] IN
         /\ MayStart(t, upd)
         /\ tasks' = [tasks EXCEPT ![t] =
               [Idle EXCEPT !.phase = "call", !.depth = 1, !.update = upd,
                            !.chain = StateChain,
                            !.kind = "message", !.key = ScopeKey(upd, conv)]]
    /\ UNCHANGED <<conversation_data, admin_ids>>

RaceStep ==
    \E t \in DOMAIN tasks :
        \/ Dispatch(t)
        \/ Handler(t)
        \/ ExitCall(t) \/ ExitReturn(t) \/ ExitSent(t)
        \/ Complete(t) \/ HandleError(t)

NextRace == RaceStep /\ UNCHANGED <<builder_vars, host_vars>>

InitRace ==
    /\ tasks = [t \in {1, 2} |-> Idle]
    /\ conversation_data = [c \in Chats |-> None]
    /\ admin_ids = {}
    /\ builder = DefaultBuilder
    /\ conv = build(builder)
    /\ heap = NewHeap
    /\ calls = <<>>
    /\ view = NoView
    /\ instances = [k \in Keys |-> NoState]
    /\ users = {}
    /\ mode \in Modes
    /\ cleared = FALSE

SpecRace == InitRace /\ [][NextRace]_vars

\* ---- the builder's operations ------------------------------------------
add_state(state, handler) ==
    /\ Len(calls) < MaxCalls
    /\ heap' = [heap EXCEPT ![builder.states] = dict_set(@, state, handler)]
    /\ calls' = Append(calls, [op |-> "add_state", state |-> state, handler |-> handler])
    /\ UNCHANGED <<builder, conv, view>>

add_entry_point(handler) ==
    /\ Len(calls) < MaxCalls
    /\ heap' = [heap EXCEPT ![builder.entry_points] = list_append(@, handler)]
    /\ calls' = Append(calls, [op |-> "add_entry_point", state |-> NoState, handler |-> handler])
    /\ UNCHANGED <<builder, conv, view>>

add_fallback(handler) ==
    /\ Len(calls) < MaxCalls
    /\ heap' = [heap EXCEPT ![builder.fallbacks] = list_append(@, handler)]
    /\ calls' = Append(calls, [op |-> "add_fallback", state |-> NoState, handler |-> handler])
    /\ UNCHANGED <<builder, conv, view>>

Build ==
    /\ Len(calls) < MaxCalls
    /\ conv' = build(builder)
    /\ view' = [entry_points |-> Deref(conv', heap).entry_points,
                states |-> Deref(conv', heap).states,
                fallbacks |-> Deref(conv', heap).fallbacks,
                at |-> Len(calls) + 1]
    /\ calls' = Append(calls, [op |-> "build", state |-> NoState, handler |-> NoHandler])
    /\ UNCHANGED <<builder, heap>>

NextBuilder ==
    /\ \/ \E s \in StateIds, h \in HandlerNames : add_state(s, h)
       \/ \E h \in HandlerNames : add_entry_point(h)
       \/ \E h \in HandlerNames : add_fallback(h)
       \/ Build
    /\ UNCHANGED <<wrapper_vars, host_vars>>

\* a builder constructed with any keyword arguments, nothing added yet
InitBuilderAny ==
    /\ \E pu \in BOOLEAN, pc \in BOOLEAN, pm \in BOOLEAN, ar \in BOOLEAN,
          n \in {None, "conv"}, ps \in BOOLEAN :
         builder = ConversationBuilder(pu, pc, pm, ar, n, ps)
    /\ heap = NewHeap
    /\ conv = NotBuilt
    /\ calls = <<>>
    /\ view = NoView
    /\ tasks = [t \in {1} |-> Idle]
    /\ conversation_data = [c \in Chats |-> None]
    /\ admin_ids = {}
    /\ InitHost

SpecBuilder == InitBuilderAny /\ [][NextBuilder]_vars
\* ---- reading a task's history -------------------------------------------
Cnt(tr, op, by) == Cardinality({i \in DOMAIN tr : tr[i].op = op /\ tr[i].by = by})
Pos(chain, w) == CHOOSE i \in 1..Len(chain) : chain[i] = w
\* the handler that wrapper w of the chain wraps
Below(chain, w) == IF Pos(chain, w) = Len(chain) THEN "h" ELSE chain[Pos(chain, w) + 1]
\* every frame nested inside wrapper w
InnerOf(chain, w) == {chain[j] : j \in (Pos(chain, w) + 1)..Len(chain)} \cup {"h"}
\* wrapper w has finished
Left(T, w) == T.gave[w] # NoOutcome
\* wrapper w has finished and nothing has run since
JustLeft(T, w) ==
    /\ Len(T.trace) > 0
    /\ T.trace[Len(T.trace)].op = "leave"
    /\ T.trace[Len(T.trace)].by = w

\* C1: admin_command. For a user outside admin_ids nothing nested in the gate
\* ever runs, the gate issues no call, writes no slot and returns None; for a
\* user in admin_ids the wrapped handler runs exactly once and its outcome is
\* the gate's outcome.
C1_AdminGate ==
    \A t \in DOMAIN tasks :
      LET T == tasks[t] IN
      (T.phase # "idle" /\ Has(T.chain, "admin")) =>
        /\ T.update.user \notin admin_ids =>
             /\ \A j \in DOMAIN T.trace :
                  /\ T.trace[j].by \notin InnerOf(T.chain, "admin")
                  /\ T.trace[j].by = "admin" => T.trace[j].op \in {"enter", "leave"}
             /\ Left(T, "admin") => T.gave["admin"] = Return(None)
             /\ JustLeft(T, "admin") =>
                  /\ T.trace[Len(T.trace) - 1] = Ev("enter", "admin", 0, 0, "-")
                  /\ T.outcome = Return(None)
                  /\ conversation_data = T.slot0
        /\ (T.update.user \in admin_ids /\ Left(T, "admin")) =>
             /\ Cnt(T.trace, "enter", Below(T.chain, "admin")) = 1
             /\ T.gave["admin"] = T.gave[Below(T.chain, "admin")]

C1_Witness ==
    \E t \in DOMAIN tasks :
      LET T == tasks[t] IN
      /\ T.phase = "done" /\ T.chain = <<"admin">>
      /\ admin_ids # {} /\ T.update.user \notin admin_ids
      /\ T.slot0[T.update.chat] = "data"

\* C2: exit_conversation_on_exception, f failed: once the wrapper has
\* finished it has issued exactly one send of user_message to the event's
\* chat, the chat's conversation_data is None and it has returned END.
C2_ExitOnFailure ==
    \A t \in DOMAIN tasks :
      LET T == tasks[t] IN
      (T.phase # "idle" /\ Has(T.chain, "exit") /\ T.seen["exit"].kind = "raise"
         /\ JustLeft(T, "exit")) =>
        /\ Cardinality({j \in DOMAIN T.trace :
              T.trace[j] = Ev("send", "exit", T.update.chat, 0, user_message)}) = 1
        /\ Cnt(T.trace, "send", "exit") = 1
        /\ conversation_data[T.update.chat] = None
        /\ T.gave["exit"] = Return(END)

\* C3: exit_conversation_on_exception, f returned: the wrapper returns f's
\* value, issues no send, and the slot still holds what the handler left.
C3_ExitOnSuccess ==
    \A t \in DOMAIN tasks :
      LET T == tasks[t] IN
      (T.phase # "idle" /\ Has(T.chain, "exit") /\ T.seen["exit"].kind = "return") =>
        /\ Cnt(T.trace, "send", "exit") = 0
        /\ Left(T, "exit") => T.gave["exit"] = T.gave[Below(T.chain, "exit")]
        /\ JustLeft(T, "exit") => conversation_data[T.update.chat] = T.slot_after_f

C3_Witness ==
    \E t \in DOMAIN tasks :
      LET T == tasks[t] IN
      /\ JustLeft(T, "exit") /\ T.gave["h"] = Return("S1")
      /\ T.gave["exit"] = Return("S1")
      /\ conversation_data[T.update.chat] = "data"

\* C4: exit_conversation_on_exception, f failed, whatever the apology send
\* does: the wrapper raises nothing, returns END, the slot is None and the
\* host never calls handle_error for this event.
C4_ExitNeverEscapes ==
    \A t \in DOMAIN tasks :
      LET T == tasks[t] IN
      (T.phase # "idle" /\ Has(T.chain, "exit") /\ T.seen["exit"].kind = "raise"
         /\ Left(T, "exit")) =>
        /\ T.gave["exit"] = Return(END)
        /\ JustLeft(T, "exit") => conversation_data[T.update.chat] = None
        /\ T.chain[1] = "exit" => T.phase \notin {"error", "error_await"}

\* C5: inject_callback_query(answer_query_after=True), h returned: h ran
\* once with the callback payload as third argument, one answer() was issued
\* and only after h had returned, and the wrapper returns h's result once the
\* answer has gone through.
C5_InjectAnswersAfter ==
    \A t \in DOMAIN tasks :
      LET T == tasks[t] IN
      (T.phase # "idle" /\ Has(T.chain, "inject") /\ T.answer_query_after) =>
        /\ \A j \in DOMAIN T.trace :
             T.trace[j].op = "answer" =>
               \E k \in 1..(j - 1) : T.trace[k] = Ev("leave", "h", 0, 0, "return")
        /\ (Left(T, "inject") /\ T.seen["inject"].kind = "return") =>
             /\ Cnt(T.trace, "enter", "h") = 1
             /\ \E j \in DOMAIN T.trace : T.trace[j] = Ev("enter", "h", 0, 0, T.update.data)
             /\ Cnt(T.trace, "answer", "inject") = 1
             /\ (\E j \in DOMAIN T.trace : T.trace[j] = Ev("resume", "inject", 0, 0, "ok"))
                  => T.gave["inject"] = T.gave["h"]

C5_Witness ==
    \E t \in DOMAIN tasks :
      LET T == tasks[t] IN
      /\ T.phase = "done" /\ T.chain = <<"inject">> /\ T.answer_query_after
      /\ T.update.data = "p2"
      /\ T.gave["h"] = Return("S1") /\ T.gave["inject"] = Return("S1")
      /\ Cnt(T.trace, "answer", "inject") = 1

\* C6: inject_callback_query(answer_query_after=True), h raised: one
\* answer() has still been issued by the time the wrapper has finished.
C6_InjectAnswersOnFailure ==
    \A t \in DOMAIN tasks :
      LET T == tasks[t] IN
      (T.phase # "idle" /\ Has(T.chain, "inject") /\ T.answer_query_after
         /\ Left(T, "inject") /\ T.seen["inject"].kind = "raise") =>
        Cnt(T.trace, "answer", "inject") = 1

\* C7: inject_callback_query(answer_query_after=False): no answer() is ever
\* issued; h runs once and its outcome is the wrapper's outcome.
C7_InjectNoAnswer ==
    \A t \in DOMAIN tasks :
      LET T == tasks[t] IN
      (T.phase # "idle" /\ Has(T.chain, "inject") /\ ~T.answer_query_after) =>
        /\ Cnt(T.trace, "answer", "inject") = 0
        /\ Left(T, "inject") =>
             /\ Cnt(T.trace, "enter", "h") = 1
             /\ \E j \in DOMAIN T.trace : T.trace[j] = Ev("enter", "h", 0, 0, T.update.data)
             /\ T.gave["inject"] = T.gave["h"]

C7_Witness ==
    \E t \in DOMAIN tasks :
      LET T == tasks[t] IN
      /\ T.phase = "done" /\ T.chain = <<"inject">> /\ ~T.answer_query_after
      /\ T.gave["inject"] = Return(END)

\* C8: delete_message_after: the wrapper's outcome is the outcome of f, value
\* or error, whether the delete call succeeded or failed.
C8_DeleteKeepsOutcome ==
    \A t \in DOMAIN tasks :
      LET T == tasks[t] IN
      (T.phase # "idle" /\ Has(T.chain, "delete") /\ Left(T, "delete")) =>
        /\ T.gave["delete"] = T.gave[Below(T.chain, "delete")]
        /\ T.gave["delete"] = T.seen["delete"]
        /\ JustLeft(T, "delete") => T.outcome = T.seen["delete"]

C8_Witness ==
    \E t \in DOMAIN tasks :
      LET T == tasks[t] IN
      /\ T.phase = "done" /\ T.chain = <<"delete">>
      /\ T.trace[Len(T.trace) - 1] = Ev("resume", "delete", 0, 0, "fail")
      /\ T.gave["delete"] = Return("S1")

\* C9: delete_message_after: by the time the wrapper has finished it has
\* issued exactly one delete of the event's message in the event's chat,
\* whether f returned or raised.
C9_DeleteAlwaysAttempted ==
    \A t \in DOMAIN tasks :
      LET T == tasks[t] IN
      (T.phase # "idle" /\ Has(T.chain, "delete") /\ Left(T, "delete")) =>
        Cardinality({j \in DOMAIN T.trace :
            T.trace[j] = Ev("delete", "delete", T.update.chat, T.update.message, "-")}) = 1

\* C10: handle_error: with no error nothing is sent or logged; for
\* UserNotRegistered one message goes to the event's chat and nothing is
\* logged; for any other error one record is logged and nothing is sent.
C10_HandleErrorByKind ==
    \A t \in DOMAIN tasks :
      LET T == tasks[t]
          sends == Cnt(T.trace, "send", "handle_error")
          logs == Cnt(T.trace, "log", "handle_error")
      IN
      /\ ~(sends > 0 /\ logs > 0)
      /\ T.dispatched # NoOutcome =>
           /\ T.error = None => sends = 0 /\ logs = 0
           /\ T.error = UserNotRegistered =>
                /\ sends = 1 /\ logs = 0
                /\ \E j \in DOMAIN T.trace :
                     T.trace[j] = Ev("send", "handle_error", T.update.chat, 0,
                                     not_registered_text)
           /\ T.error \notin {None, UserNotRegistered} => sends = 0 /\ logs = 1

C10_Witness ==
    \E t \in DOMAIN tasks :
      LET T == tasks[t] IN
      /\ T.phase = "done" /\ T.dispatched # NoOutcome
      /\ T.error = UserNotRegistered
      /\ T.chain = <<"admin", "delete">>
      /\ Cnt(T.trace, "send", "handle_error") = 1

\* C11: handle_error is terminal: whatever context.error holds and whatever
\* its own send does, it raises nothing.
C11_HandleErrorNeverRaises ==
    \A t \in DOMAIN tasks : tasks[t].dispatched.kind # "raise"

\* ---- the composition of C18 ---------------------------------------------
NestedChain == <<"exit", "admin", "delete", "inject">>

IsEffect(e) ==
    \/ e.op \in {"answer", "delete", "send"}
    \/ e.op = "enter" /\ e.by \in {"admin", "h"}
EffectOf(e) == IF e.op = "enter" THEN IF e.by = "admin" THEN "gate" ELSE "h"
               ELSE IF e.op = "send" THEN "apology" ELSE e.op
Effects(tr) == LET es == SelectSeq(tr, IsEffect) IN [i \in DOMAIN es |-> EffectOf(es[i])]
Resumed(tr, by, arg) == \E j \in DOMAIN tr : tr[j] = Ev("resume", by, 0, 0, arg)

\* the effect sequence the nesting prescribes for given outcomes of the gate,
\* of h and of the answer call
NestedEffects(authorized, hOut, answers, answerOk) ==
    IF ~authorized THEN <<"gate">>
    ELSE IF hOut.kind = "raise" THEN <<"gate", "h", "apology">>
    ELSE IF ~answers THEN <<"gate", "h", "delete">>
    ELSE IF answerOk THEN <<"gate", "h", "answer", "delete">>
    ELSE <<"gate", "h", "answer", "apology">>

\* C18: for exit(admin(delete(inject(h)))) the effects of one event are a
\* function of the outcomes and come in nesting order: gate, h, answer,
\* delete, and last, only when a failure reached the outer wrapper, the
\* apology followed by the slot clear.
C18_NestingOrder ==
    \A t \in DOMAIN tasks :
      LET T == tasks[t] IN
      (T.phase # "idle" /\ T.chain = NestedChain /\ Left(T, "exit")) =>
        /\ Effects(T.trace) =
             NestedEffects(T.update.user \in admin_ids, T.gave["h"],
                           T.answer_query_after, Resumed(T.trace, "inject", "ok"))
        /\ JustLeft(T, "exit") =>
             conversation_data[T.update.chat] =
               IF Resumed(T.trace, "exit", "ok") THEN None ELSE T.slot_after_f

C18_Witness ==
    \E t \in DOMAIN tasks :
      LET T == tasks[t] IN
      /\ T.phase = "done" /\ T.chain = NestedChain
      /\ Effects(T.trace) = <<"gate", "h", "answer", "delete">>
      /\ Resumed(T.trace, "delete", "fail")
      /\ T.gave["exit"] = Return("S1")

\* ---- reading the builder's call history ---------------------------------
RECURSIVE LastAdded(_, _)
\* the handler of the last add_state call for state s, NoHandler if none
LastAdded(cs, s) ==
    IF cs = <<>> THEN NoHandler
    ELSE LET c == cs[Len(cs)] IN
         IF c.op = "add_state" /\ c.state = s THEN c.handler
         ELSE LastAdded(SubSeq(cs, 1, Len(cs) - 1), s)
\* the handlers given to the calls of one operation, in call order
Added(cs, op) ==
    LET sel == SelectSeq(cs, LAMBDA c : c.op = op) IN [i \in DOMAIN sel |-> sel[i].handler]
BeforeBuild == SubSeq(calls, 1, view.at - 1)

\* C15: what build() returns holds, for each state, the handler of the last
\* add_state call for it, the entry points and the fallbacks in call order
\* with duplicates, and the builder's flags, name and persistence flag.
C15_BuilderAccumulates ==
    conv.built =>
      /\ view.states = [s \in StateIds |-> LastAdded(BeforeBuild, s)]
      /\ view.entry_points = Added(BeforeBuild, "add_entry_point")
      /\ view.fallbacks = Added(BeforeBuild, "add_fallback")
      /\ conv.per_user = builder.per_user /\ conv.per_chat = builder.per_chat
      /\ conv.per_message = builder.per_message
      /\ conv.allow_reentry = builder.allow_reentry
      /\ conv.name = builder.name /\ conv.persistent = builder.persistent

C15_Witness ==
    /\ conv.built /\ view.at = 3
    /\ calls[1] = [op |-> "add_state", state |-> "S1", handler |-> "h1"]
    /\ calls[2] = [op |-> "add_state", state |-> "S1", handler |-> "h2"]
    /\ view.states["S1"] = "h2" /\ view.states["S2"] = NoHandler
    /\ builder.allow_reentry /\ builder.name = "conv"

\* C16: the handler returned by build() still holds what it held when it was
\* built, whatever is added to the builder afterwards.
C16_BuiltIsImmutable ==
    conv.built =>
      /\ Deref(conv, heap).entry_points = view.entry_points
      /\ Deref(conv, heap).states = view.states
      /\ Deref(conv, heap).fallbacks = view.fallbacks

\* C12: with the builder defaults an event changes the machine instance of
\* its own (chat, user) pair only, so users of one chat never share an
\* instance, and the events of one (chat, user) pair always meet the same one.
C12_ScopedPerUserAndChat ==
    /\ [](\A t \in DOMAIN tasks :
            tasks[t].route # "none" =>
              tasks[t].key = <<tasks[t].update.chat, tasks[t].update.user, 0>>)
    /\ [][\A k \in Keys :
            instances'[k] # instances[k] =>
              \E t \in DOMAIN tasks :
                /\ tasks[t].phase = "ret" /\ tasks[t].depth = 0
                /\ k = <<tasks[t].update.chat, tasks[t].update.user, 0>>]_vars

C12_Witness ==
    \E t \in DOMAIN tasks :
      LET T == tasks[t] IN
      /\ T.phase = "done" /\ T.route = "state" /\ T.state0 = "S1"
      /\ T.update.user = 2 /\ T.update.chat = 1 /\ T.outcome = Return(END)
      /\ instances[<<1, 2, 0>>] = NoState
      /\ instances[<<1, 1, 0>>] = "S1"

\* C13: an entry-point event for a key with an active instance is ignored
\* when the builder's allow_reentry is false (no handler runs, the state
\* stays), and goes to the entry point when it is true.
C13_Reentry ==
    \A t \in DOMAIN tasks :
      LET T == tasks[t] IN
      (T.kind = "entry" /\ T.state0 # NoState) =>
        IF builder.allow_reentry
        THEN /\ T.route = "entry" /\ T.chain = EntryChain
             /\ (T.phase = "done" /\ T.dispatched = NoOutcome) =>
                  /\ Cnt(T.trace, "enter", "admin") = 1
                  /\ instances[T.key] = NextState(T.state0, T.outcome)
        ELSE /\ T.route = "ignored" /\ T.trace = <<>> /\ T.phase = "done"
             /\ instances[T.key] = T.state0
             /\ conversation_data = T.slot0

C13_Witness ==
    \E t \in DOMAIN tasks :
      LET T == tasks[t] IN
      /\ ~builder.allow_reentry
      /\ T.phase = "done" /\ T.kind = "entry" /\ T.state0 = "S1"
      /\ T.route = "ignored" /\ instances[T.key] = "S1"
      /\ T.update.user \in admin_ids

\* C14: when the handler of S1, wrapped by exit_conversation_on_exception,
\* raises, the user gets the apology once and the instance of (user, chat)
\* is gone, so that the next entry-point command starts afresh.
C14_RecoveryAfterFailure ==
    \A t \in DOMAIN tasks :
      LET T == tasks[t] IN
      (T.route = "state" /\ T.state0 = "S1" /\ T.gave["h"].kind = "raise"
         /\ T.phase \in {"done", "error", "error_await"}) =>
        /\ Cnt(T.trace, "send", "exit") = 1
        /\ Resumed(T.trace, "exit", "ok")
        /\ instances[T.key] = NoState
        /\ Route("entry", instances[T.key], conv.allow_reentry) = "entry"

C20_ClearCacheFrame ==
    [][Cardinality(users') < Cardinality(users) =>
         /\ users' = {}
         /\ UNCHANGED <<tasks, conversation_data, instances, admin_ids, conv>>]_vars

C20_Witness ==
    /\ cleared /\ users = {}
    /\ \E k \in Keys : instances[k] = "S1"
    /\ \E t \in DOMAIN tasks : tasks[t].phase = "await" /\ tasks[t].route = "state"
    /\ \E c \in Chats : conversation_data[c] = "data"

\* the exit wrapper of event a, resumed after its apology send, has emptied
\* the slot that the handler of event b wrote while a was suspended, and b's
\* conversation goes on
LostUpdate(a, b) ==
    /\ a # b
    /\ a \in tasks[b].overlap
    /\ Resumed(tasks[a].trace, "exit", "ok")
    /\ tasks[b].gave["h"] = Return("S1")
    /\ tasks[b].slot_after_f = "data"
    /\ conversation_data[tasks[b].update.chat] = None

\* C19 as stated: no lost update when the host serializes the events of one
\* scope key.
C19_NoRacePerScopeKey ==
    mode = "per_key" => \A a, b \in DOMAIN tasks : ~LostUpdate(a, b)

\* C19 amended: no lost update when the host serializes the events of one
\* chat; a lost update only hits the chat of the failing event.
C19_NoRacePerChat ==
    \A a, b \in DOMAIN tasks :
      LostUpdate(a, b) =>
        /\ mode # "per_chat"
        /\ tasks[a].update.chat = tasks[b].update.chat

C19_Witness ==
    /\ mode = "concurrent"
    /\ \E a, b \in DOMAIN tasks :
         /\ LostUpdate(a, b)
         /\ tasks[a].update = tasks[b].update
====
